---- MODULE Spec2Model ----
(***************************************************************************)
(* A model of tornadorpc/base.py: the fault taxonomy (Faults, FaultMethod), *)
(* the method resolver (check_method), the invoker (dispatch) and the       *)
(* request lifecycle (BaseRPCHandler.post / BaseRPCParser.run), run against *)
(* the TestRPCHandler object graph that the file itself defines.            *)
(*                                                                         *)
(* Python strings are sequences of one-character strings, so that split,   *)
(* startswith, capitalize and join are computed and not assumed.           *)
(***************************************************************************)
EXTENDS Integers, Sequences, FiniteSets, TLC

\* ------------------------------------------------------------------ bounds
\* Largest integer argument a request carries (the smallest is -1).
MaxVal == 2
\* Longest positional argument list a request carries.
MaxArgs == 3
\* Longest batch of descriptors one request carries under Spec.
MaxBatch == 2
\* How many FaultMethod objects are looked up under SpecFaults.
MaxFaultMethods == 2

\* ----------------------------------------------------------------- strings
S_add == <<"a", "d", "d">>
S_ping == <<"p", "i", "n", "g">>
S_tree == <<"t", "r", "e", "e">>
S_power == <<"p", "o", "w", "e", "r">>
S_private == <<"p", "r", "i", "v", "a", "t", "e">>
S__private == <<"_">> \o S_private
S__RPC_ == <<"_", "R", "P", "C", "_">>
S_post == <<"p", "o", "s", "t">>
S_write == <<"w", "r", "i", "t", "e">>
S_set_header == <<"s", "e", "t", "_", "h", "e", "a", "d", "e", "r">>
S_missing == <<"m", "i", "s", "s", "i", "n", "g">>
S_dot == <<".">>
S_parse_error == <<"p", "a", "r", "s", "e", "_", "e", "r", "r", "o", "r">>
S_method_not_found ==
    <<"m", "e", "t", "h", "o", "d", "_", "n", "o", "t", "_", "f", "o", "u", "n", "d">>
S_invalid_request ==
    <<"i", "n", "v", "a", "l", "i", "d", "_", "r", "e", "q", "u", "e", "s", "t">>
S_invalid_params ==
    <<"i", "n", "v", "a", "l", "i", "d", "_", "p", "a", "r", "a", "m", "s">>
S_internal_error ==
    <<"i", "n", "t", "e", "r", "n", "a", "l", "_", "e", "r", "r", "o", "r">>
S_fault == <<"f", "a", "u", "l", "t">>
S_library == <<"l", "i", "b", "r", "a", "r", "y">>
S_codes == <<"c", "o", "d", "e", "s">>
S_messages == <<"m", "e", "s", "s", "a", "g", "e", "s">>
S_bogus == <<"b", "o", "g", "u", "s">>
S_Oops == <<"O", "o", "p", "s">>
S_REQUEST == <<"R", "E", "Q", "U", "E", "S", "T">>

\* str.startswith(c) for a one-character prefix
StartsWith(s, c) == Len(s) > 0 /\ s[1] = c

\* str.split(sep) for a one-character separator: "" gives [""], "a..b" gives
\* ["a", "", "b"]
RECURSIVE Split(_, _)
Split(s, sep) ==
    IF \A i \in 1..Len(s) : s[i] # sep
    THEN <<s>>
    ELSE LET i == CHOOSE k \in 1..Len(s) :
                      s[k] = sep /\ \A j \in 1..(k - 1) : s[j] # sep
         IN <<SubSeq(s, 1, i - 1)>> \o Split(SubSeq(s, i + 1, Len(s)), sep)

LowerCase ==
    <<"a", "b", "c", "d", "e", "f", "g", "h", "i", "j", "k", "l", "m",
      "n", "o", "p", "q", "r", "s", "t", "u", "v", "w", "x", "y", "z">>
UpperCase ==
    <<"A", "B", "C", "D", "E", "F", "G", "H", "I", "J", "K", "L", "M",
      "N", "O", "P", "Q", "R", "S", "T", "U", "V", "W", "X", "Y", "Z">>
Upper(c) ==
    IF \E i \in 1..26 : LowerCase[i] = c
    THEN UpperCase[CHOOSE i \in 1..26 : LowerCase[i] = c]
    ELSE c
Lower(c) ==
    IF \E i \in 1..26 : UpperCase[i] = c
    THEN LowerCase[CHOOSE i \in 1..26 : UpperCase[i] = c]
    ELSE c

\* str.capitalize: first character upper-cased, the rest lower-cased
Capitalize(w) ==
    [i \in 1..Len(w) |-> IF i = 1 THEN Upper(w[i]) ELSE Lower(w[i])]

\* sep.join(words)
RECURSIVE Join(_, _)
Join(words, sep) ==
    IF Len(words) = 0 THEN <<>>
    ELSE IF Len(words) = 1 THEN words[1]
    ELSE words[1] \o sep \o Join(Tail(words), sep)

\* map(str.capitalize, words)
MapCapitalize(words) == [i \in 1..Len(words) |-> Capitalize(words[i])]

\* ------------------------------------------------------------------- state
VARIABLES
    codes,        \* Faults.codes, the class-level table name -> code
    messages,     \* Faults.messages, the class-level table name -> message
    handler,      \* parser.handler, the attribute run() stores on the shared parser
    pc,           \* per request: where its post()/run() call stands
    body,         \* per request: what parse_request makes of the request body
    idx,          \* per request: how many descriptors the loop of run() has passed
    responses,    \* per request: the local list `responses` of run()
    calls,        \* per request: the handler callables invoked, in order
    reports,      \* per request: the calls of parser.traceback(), in order
    ret,          \* per request: what run() returned (or that it raised)
    fms,          \* the FaultMethod objects looked up so far
    lastLookup,   \* the latest attribute lookup on parser.faults and what it gave
    lastCall      \* the latest call of a FaultMethod and the fault it built

vars == <<codes, messages, handler, pc, body, idx, responses, calls, reports,
          ret, fms, lastLookup, lastCall>>

\* ------------------------------------------------------------ Python values
None == [t |-> "none", n |-> 0, d |-> 1]
IntV(i) == [t |-> "int", n |-> i, d |-> 1]
FloatV(num, den) == [t |-> "float", n |-> num, d |-> den]
False == [t |-> "bool", n |-> 0, d |-> 1]
\* a keyword a dict does not hold
Absent == [t |-> "absent", n |-> 0, d |-> 1]

\* the argument values requests carry
Values == {None} \cup {IntV(i) : i \in -1..MaxVal}

\* the keys a keyword-argument dict may hold
Keys == {"x", "y", "z"}

NoKw == [k \in Keys |-> Absent]

\* params of a descriptor: a list, a tuple, a dict, or something else
ListParams(args) == [shape |-> "list", pos |-> args, kw |-> NoKw]
TupleParams(args) == [shape |-> "tuple", pos |-> args, kw |-> NoKw]
DictParams(d) == [shape |-> "dict", pos |-> <<>>, kw |-> d]
OtherParams(shape) == [shape |-> shape, pos |-> <<>>, kw |-> NoKw]

\* ----------------------------------------------------------- fault taxonomy
\* Faults.codes as the class body sets it
InitialCodes ==
    (S_parse_error :> -32700) @@ (S_method_not_found :> -32601) @@
    (S_invalid_request :> -32600) @@ (S_invalid_params :> -32602) @@
    (S_internal_error :> -32603)

\* Faults.messages as the class body sets it: {}
InitialMessages == [nm \in {} |-> <<>>]

\* the attributes a Faults instance has without __getattr__: library and fault
\* set by __init__, codes and messages on the class
FaultsOwnAttributes == {S_library, S_fault, S_codes, S_messages}

\* the optional message argument of FaultMethod.__call__
NoMessage == [none |-> TRUE, s |-> <<>>]
Message(s) == [none |-> FALSE, s |-> s]
\* Python truth of the argument: None and "" are false
Truthy(m) == ~m.none /\ Len(m.s) > 0

\* FaultMethod.__init__
FaultMethod_init(code, message) == [code |-> code, message |-> message]

\* Faults.__getattr__ keeping one FaultMethod per name: a later lookup hands out
\* the object an earlier one made
Faults___getattr___Cached(attr) ==
    LET message == IF attr \in DOMAIN messages
                   THEN messages[attr]
                   ELSE Join(MapCapitalize(Split(attr, "_")), <<" ">>)
        cached == IF attr \in DOMAIN codes
                  THEN {i \in 1..Len(fms) : fms[i].code = codes[attr]}
                  ELSE {}
    IN IF cached # {}
       THEN [kind |-> "FaultMethod", fm |-> fms[CHOOSE i \in cached : TRUE]]
       ELSE IF attr \in DOMAIN codes
       THEN [kind |-> "FaultMethod", fm |-> FaultMethod_init(codes[attr], message)]
       ELSE [kind |-> "KeyError", fm |-> FaultMethod_init(0, <<>>)]

\* Faults.__getattr__: the default message, then codes[attr] (KeyError if absent)
Faults___getattr__(attr) ==
    LET message == IF attr \in DOMAIN messages
                   THEN messages[attr]
                   ELSE Join(MapCapitalize(Split(attr, "_")), <<" ">>)
    IN IF attr \in DOMAIN codes
       THEN [kind |-> "FaultMethod", fm |-> FaultMethod_init(codes[attr], message)]
       ELSE [kind |-> "KeyError", fm |-> FaultMethod_init(0, <<>>)]

\* parser.faults.<attr>: Python looks the attribute up on the object and its
\* class first and calls __getattr__ only when that fails
Faults_lookup(attr) ==
    IF attr \in FaultsOwnAttributes
    THEN [kind |-> "attribute", fm |-> FaultMethod_init(0, <<>>)]
    ELSE Faults___getattr__(attr)

\* FaultMethod.__call__ that drops the message it is given
FaultMethod___call___Dropped(fm, message) ==
    [fm |-> fm, fault |-> [code |-> fm.code, message |-> fm.message]]

\* FaultMethod.__call__: the FaultMethod after the call and the fault it built
FaultMethod___call__(fm, message) ==
    LET self == IF Truthy(message) THEN [fm EXCEPT !.message = message.s] ELSE fm
    IN [fm |-> self, fault |-> [code |-> self.code, message |-> self.message]]

\* self.faults.<name>() as run() and dispatch() use it
Fault(name) == FaultMethod___call__(Faults_lookup(name).fm, NoMessage).fault

\* ---------------------------------------------------------------- results
ValueResult(v) == [kind |-> "value", val |-> v, code |-> 0, message |-> <<>>]
FaultResult(f) == [kind |-> "fault", val |-> None, code |-> f.code, message |-> f.message]
\* no result: an exception leaves dispatch
RaisedResult == [kind |-> "raise", val |-> None, code |-> 0, message |-> <<>>]

\* ------------------------------------------------- the handler object graph
\* The RequestHandler instances Tornado makes, one per request; each is a
\* TestRPCHandler and post() passes it to run() as `handler`.
Handlers == {"h1", "h2"}

\* dir(RequestHandler): the names base.py itself uses on the transport handler
\* (post, set_header, write)
ReservedNames == {S_post, S_set_header, S_write}

\* The attributes of each object reachable from a TestRPCHandler instance, as
\* name -> object.  "TestRPCHandler" stands for the instance itself, "tree" for
\* the TestMethodTree instance, "private" and "tree.private" for the
\* PrivateMethod instances the @private decorator makes, "True" for the value of
\* their `private` attribute.
Attrs(obj) ==
    CASE obj = "TestRPCHandler" ->
            (S_add :> "add") @@ (S_ping :> "ping") @@ (S_tree :> "tree") @@
            (S__private :> "_private") @@ (S_private :> "private") @@
            (S__RPC_ :> "_RPC_") @@ (S_post :> "post") @@
            (S_set_header :> "set_header") @@ (S_write :> "write")
      [] obj = "tree" -> (S_power :> "tree.power") @@ (S_private :> "tree.private")
      [] obj \in {"private", "tree.private"} -> (S_private :> "True")
      [] OTHER -> [nm \in {} |-> ""]

\* name in dir(obj)
InDir(obj, name) == name \in DOMAIN Attrs(obj)

\* Callable taking every object for callable
Callable_Any(obj) == TRUE

\* callable(obj): functions, bound methods and PrivateMethod instances
\* (PrivateMethod defines __call__)
Callable(obj) ==
    obj \in {"add", "ping", "_private", "private", "tree.power", "tree.private",
             "post", "set_header", "write"}

\* the declared parameters of each callable (after self) and their defaults,
\* which belong to the last parameters
Signature(obj) ==
    CASE obj = "add" -> [names |-> <<"x", "y">>, defaults |-> <<>>]
      [] obj = "ping" -> [names |-> <<"x">>, defaults |-> <<>>]
      [] obj = "tree.power" -> [names |-> <<"x", "y">>, defaults |-> <<IntV(2)>>]
      [] OTHER -> [names |-> <<>>, defaults |-> <<>>]

\* ------------------------------------------------------------ method bodies
RECURSIVE IntPow(_, _)
IntPow(b, e) == IF e = 0 THEN 1 ELSE b * IntPow(b, e - 1)

\* Python's pow(x, y) for two ints: an int for y >= 0, ZeroDivisionError for
\* 0 to a negative power, else the float 1 / x^(-y)
pow(x, y) ==
    IF x.t # "int" \/ y.t # "int" THEN [kind |-> "TypeError", val |-> None]
    ELSE IF y.n >= 0 THEN [kind |-> "return", val |-> IntV(IntPow(x.n, y.n))]
    ELSE IF x.n = 0 THEN [kind |-> "Exception", val |-> None]
    ELSE LET p == IntPow(x.n, 0 - y.n)
         IN [kind |-> "return",
             val |-> IF p > 0 THEN FloatV(1, p) ELSE FloatV(-1, 0 - p)]

\* TestRPCHandler.add, ping, _private, private and TestMethodTree.power, private
\* run on bound arguments
Body(obj, args) ==
    CASE obj = "add" ->
            IF args[1].t = "int" /\ args[2].t = "int"
            THEN [kind |-> "return", val |-> IntV(args[1].n + args[2].n)]
            ELSE [kind |-> "TypeError", val |-> None]
      [] obj = "ping" -> [kind |-> "return", val |-> args[1]]
      [] obj = "tree.power" -> pow(args[1], args[2])
      [] obj \in {"_private", "private", "tree.private"} ->
            [kind |-> "return", val |-> False]
      [] OTHER -> [kind |-> "return", val |-> None]

\* Bind with a dict passed as method(params), one positional argument, instead
\* of method(**params)
Bind_NoUnpack(sig, params) ==
    LET n == Len(sig.names)
        nreq == n - Len(sig.defaults)
        default(i) == sig.defaults[i - nreq]
        pos == IF params.shape = "dict"
               THEN <<[t |-> "dict", n |-> 0, d |-> 1]>>
               ELSE params.pos
    IN [ok |-> Len(pos) >= nreq /\ Len(pos) <= n,
        args |-> [i \in 1..n |->
                     IF i <= Len(pos) THEN pos[i]
                     ELSE IF i > nreq THEN default(i) ELSE None]]

\* Python's argument binding of method(*params) / method(**params): whether the
\* arguments fit the signature, and the value of each declared parameter
Bind(sig, params) ==
    LET n == Len(sig.names)
        nreq == n - Len(sig.defaults)
        default(i) == sig.defaults[i - nreq]
        given == {k \in Keys : params.kw[k] # Absent}
    IN IF params.shape = "dict"
       THEN [ok |-> /\ given \subseteq {sig.names[i] : i \in 1..n}
                    /\ \A i \in 1..nreq : sig.names[i] \in given,
             args |-> [i \in 1..n |->
                          IF sig.names[i] \in given THEN params.kw[sig.names[i]]
                          ELSE IF i > nreq THEN default(i) ELSE None]]
       ELSE [ok |-> Len(params.pos) >= nreq /\ Len(params.pos) <= n,
             args |-> [i \in 1..n |->
                          IF i <= Len(params.pos) THEN params.pos[i]
                          ELSE IF i > nreq THEN default(i) ELSE None]]

\* method(*params) or method(**params): "return" with the value, "BindError"
\* (the TypeError Python raises when the arguments do not fit), "TypeError" (a
\* TypeError raised inside the body) or "Exception" (anything else raised)
Invoke(obj, params) ==
    LET b == Bind(Signature(obj), params)
    IN IF ~b.ok THEN [kind |-> "BindError", val |-> None]
       ELSE Body(obj, b.args)

\* ----------------------------------------------------------------- dispatch
\* BaseRPCParser.check_method: the attribute, or AttributeError
check_method(attr_name, obj) ==
    IF StartsWith(attr_name, "_") THEN [ok |-> FALSE, attr |-> ""]
    ELSE IF ~InDir(obj, attr_name) THEN [ok |-> FALSE, attr |-> ""]
    ELSE LET attr == Attrs(obj)[attr_name]
         IN IF InDir(attr, S_private) /\ Attrs(attr)[S_private] = "True"
            THEN [ok |-> FALSE, attr |-> ""]
            ELSE [ok |-> TRUE, attr |-> attr]

\* the loop of dispatch over attr_tree, stopped by the first AttributeError
RECURSIVE Walk(_, _)
Walk(attr_tree, obj) ==
    IF Len(attr_tree) = 0 THEN [ok |-> TRUE, attr |-> obj]
    ELSE LET c == check_method(Head(attr_tree), obj)
         IN IF c.ok THEN Walk(Tail(attr_tree), c.attr) ELSE c

\* Report of a call that leaves the arguments out: traceback()'s defaults
Report_Default(method_name, params) ==
    [method_name |-> S_REQUEST, params |-> ListParams(<<>>)]

\* one call of parser.traceback
Report(method_name, params) == [method_name |-> method_name, params |-> params]

\* traceback(), lines 156-157: ' - (PARAMS: %s)' % params, evaluated when
\* len(params) > 0.  A list or a dict is formatted as one value; a tuple is taken
\* for the tuple of format arguments, and one of two or more items raises
\* TypeError (not all arguments converted)
FormatRaises(params) == params.shape = "tuple" /\ Len(params.pos) > 1

Outcome(result, called, reported) ==
    [result |-> result, calls |-> called, reports |-> reported]

\* ExceptClause without `except TypeError`: the bare except takes everything
ExceptClause_BareOnly(kind) == S_internal_error

\* the except clauses of dispatch: which fault an exception of the call becomes.
\* `except TypeError` takes the TypeError of arguments that do not fit and a
\* TypeError raised inside the body alike; the bare except takes the rest.
ExceptClause(kind) ==
    IF kind \in {"BindError", "TypeError"} THEN S_invalid_params
    ELSE S_internal_error

\* the try/except around method(**params) and method(*params)
Guarded(self, method, method_name, params) ==
    LET r == Invoke(method, params)
        \* `ran` tells whether the arguments fitted, so that the body ran
        call == <<[self |-> self, target |-> method, params |-> params,
                   ran |-> r.kind # "BindError"]>>
    IN CASE r.kind = "return" -> Outcome(ValueResult(r.val), call, <<>>)
         [] ExceptClause(r.kind) = S_invalid_params ->
                Outcome(FaultResult(Fault(S_invalid_params)), call, <<>>)
         [] FormatRaises(params) ->
                \* the TypeError of traceback() is raised inside the except
                \* clause and leaves dispatch
                Outcome(RaisedResult, call, <<Report(method_name, params)>>)
         [] OTHER ->
                Outcome(FaultResult(Fault(S_internal_error)), call,
                        <<Report(method_name, params)>>)

\* Reserved without the test against the transport handler's own names
Reserved_Never(method_name) == FALSE

\* method_name in dir(RequestHandler)
Reserved(method_name) == method_name \in ReservedNames

\* type(params) is types.DictType
IsDict(params) == params.shape = "dict"

\* IsListOrTuple taking everything that is not a dict for positional arguments
IsListOrTuple_Else(params) == params.shape # "dict"

\* type(params) in (types.ListType, types.TupleType)
IsListOrTuple(params) == params.shape \in {"list", "tuple"}

\* dispatch looking at the shape of params before it resolves the name
dispatch_ParamsFirst(self, method_name, params) ==
    LET notFound == Outcome(FaultResult(Fault(S_method_not_found)), <<>>, <<>>)
        w == Walk(Split(method_name, "."), "TestRPCHandler")
    IN IF ~IsDict(params) /\ ~IsListOrTuple(params)
       THEN Outcome(FaultResult(Fault(S_invalid_params)), <<>>, <<>>)
       ELSE IF Reserved(method_name) THEN notFound
       ELSE IF ~w.ok THEN notFound
       ELSE IF ~Callable(w.attr) THEN notFound
       ELSE IF \/ StartsWith(method_name, "_")
               \/ (InDir(w.attr, S_private) /\ Attrs(w.attr)[S_private] = "True")
            THEN notFound
       ELSE Guarded(self, w.attr, method_name, params)

\* BaseRPCParser.dispatch with self.handler = self: the result, the calls made
\* on handler callables and the calls of parser.traceback
dispatch(self, method_name, params) ==
    LET notFound == Outcome(FaultResult(Fault(S_method_not_found)), <<>>, <<>>)
        w == Walk(Split(method_name, "."), "TestRPCHandler")
    IN IF Reserved(method_name) THEN notFound
       ELSE IF ~w.ok THEN notFound
       ELSE IF ~Callable(w.attr) THEN notFound
       ELSE IF \/ StartsWith(method_name, "_")
               \/ (InDir(w.attr, S_private) /\ Attrs(w.attr)[S_private] = "True")
            THEN notFound
       ELSE IF IsDict(params) THEN Guarded(self, w.attr, method_name, params)
       ELSE IF IsListOrTuple(params) THEN Guarded(self, w.attr, method_name, params)
       ELSE Outcome(FaultResult(Fault(S_invalid_params)), <<>>, <<>>)

\* ---------------------------------------------------------------- requests
\* one entry of the tuple parse_request returns: a (method_name, params) pair,
\* or an entry too short to be one (the [] of the base parse_request's ([], []))
Descriptor(name, params) == [name |-> name, params |-> params, len |-> 2]
EmptyEntry == [name |-> <<>>, params |-> ListParams(<<>>), len |-> 0]

\* what parse_request makes of a request body: it raises, or returns a string,
\* an object with a response method, some other non-tuple, or a tuple of entries
BodyOf(kind, requests) == [kind |-> kind, requests |-> requests]
NonTupleBodies == {BodyOf(k, <<>>) : k \in {"raise", "text", "response", "other"}}

\* what run() hands back: a string, a Fault object, some other object, or nothing
\* because an exception left run(); `via` names the return statement taken and
\* `payload` the results a composed response encodes; `composed` is the type of
\* what parse_responses returned, empty when run() did not call it
Returned(type, via, payload, fault) ==
    [type |-> type, via |-> via, payload |-> payload,
     code |-> fault.code, message |-> fault.message, composed |-> ""]
NoFault == [code |-> 0, message |-> <<>>]
Pending == Returned("pending", "", <<>>, NoFault)

\* parse_responses(responses): the composer's output is a string, or (when
\* `textual` is false) a value that is not one; encode(value) gives the string
parse_responses(resps, textual) ==
    [type |-> IF textual THEN "text" ELSE "object", payload |-> resps]
encode(value) == [type |-> "text", payload |-> value.payload]

\* ParseOutcome without the final else: an object that is neither text nor has
\* a response method falls through to the loop
ParseOutcome_NoElse(b) ==
    CASE b.kind = "raise" ->
            [ret |-> Returned("fault", "parse_error", <<>>, Fault(S_parse_error)),
             reports |-> <<Report(S_REQUEST, ListParams(<<>>))>>]
      [] b.kind = "text" ->
            [ret |-> Returned("text", "text", <<>>, NoFault), reports |-> <<>>]
      [] b.kind = "response" ->
            [ret |-> Returned("text", "response", <<>>, NoFault), reports |-> <<>>]
      [] OTHER -> [ret |-> Pending, reports |-> <<>>]

\* ParseOutcome without the try/except: the parser's exception leaves run()
ParseOutcome_NoExcept(b) ==
    CASE b.kind = "raise" ->
            [ret |-> Returned("raised", "parse_request", <<>>, NoFault), reports |-> <<>>]
      [] b.kind = "text" ->
            [ret |-> Returned("text", "text", <<>>, NoFault), reports |-> <<>>]
      [] b.kind = "response" ->
            [ret |-> Returned("text", "response", <<>>, NoFault), reports |-> <<>>]
      [] b.kind = "other" ->
            [ret |-> Returned("object", "unmodified", <<>>, NoFault), reports |-> <<>>]
      [] OTHER -> [ret |-> Pending, reports |-> <<>>]

\* run(), lines 70-87: the try/except around parse_request and the branch on
\* what it returned: what run() returns there (Pending when it goes on to the
\* loop) and the calls of parser.traceback it makes
ParseOutcome(b) ==
    CASE b.kind = "raise" ->
            [ret |-> Returned("fault", "parse_error", <<>>, Fault(S_parse_error)),
             reports |-> <<Report(S_REQUEST, ListParams(<<>>))>>]
      [] b.kind = "text" ->
            [ret |-> Returned("text", "text", <<>>, NoFault), reports |-> <<>>]
      [] b.kind = "response" ->
            [ret |-> Returned("text", "response", <<>>, NoFault), reports |-> <<>>]
      [] b.kind = "other" ->
            [ret |-> Returned("object", "unmodified", <<>>, NoFault), reports |-> <<>>]
      [] OTHER -> [ret |-> Pending, reports |-> <<>>]

\* run(), lines 69-87: store the handler on the parser, parse the body, and
\* return at once unless the parser gave a tuple
RunParse(h) ==
    /\ pc[h] = "post"
    /\ handler' = h
    /\ LET out == ParseOutcome(body[h])
       IN /\ reports' = [reports EXCEPT ![h] = @ \o out.reports]
          /\ ret' = [ret EXCEPT ![h] = out.ret]
          /\ pc' = [pc EXCEPT ![h] = IF out.ret = Pending THEN "loop" ELSE "done"]
    /\ UNCHANGED <<codes, messages, body, idx, responses, calls, fms,
                   lastLookup, lastCall>>

\* Appended with the new response put first
Appended_Prepend(resps, response) == <<response>> \o resps

\* responses.append(response)
Appended(resps, response) == Append(resps, response)

\* RunDispatch leaving the loop at the first fault: the descriptors after it are
\* skipped
RunDispatch_StopOnFault(h) ==
    /\ pc[h] = "loop"
    /\ idx[h] < Len(body[h].requests)
    /\ LET request == body[h].requests[idx[h] + 1]
           out == dispatch(handler, request.name, request.params)
       IN IF request.len < 2
          THEN /\ pc' = [pc EXCEPT ![h] = "done"]
               /\ ret' = [ret EXCEPT ![h] = Returned("raised", "IndexError", <<>>, NoFault)]
               /\ UNCHANGED <<idx, responses, calls, reports>>
          ELSE IF out.result.kind = "raise"
          THEN /\ pc' = [pc EXCEPT ![h] = "done"]
               /\ ret' = [ret EXCEPT ![h] = Returned("raised", "TypeError", <<>>, NoFault)]
               /\ calls' = [calls EXCEPT ![h] = @ \o out.calls]
               /\ reports' = [reports EXCEPT ![h] = @ \o out.reports]
               /\ UNCHANGED <<idx, responses>>
          ELSE /\ responses' = [responses EXCEPT ![h] = Appended(@, out.result)]
               /\ calls' = [calls EXCEPT ![h] = @ \o out.calls]
               /\ reports' = [reports EXCEPT ![h] = @ \o out.reports]
               /\ idx' = [idx EXCEPT ![h] =
                            IF out.result.kind = "fault"
                            THEN Len(body[h].requests) ELSE @ + 1]
               /\ UNCHANGED <<pc, ret>>
    /\ UNCHANGED <<codes, messages, handler, body, fms, lastLookup, lastCall>>

\* run(), lines 89-91: one pass of the loop.  request[0], request[1] raises
\* IndexError on an entry that is too short, and the exception leaves run(), as
\* does an exception that leaves dispatch; dispatch reads self.handler, the
\* attribute of the shared parser.
RunDispatch(h) ==
    /\ pc[h] = "loop"
    /\ idx[h] < Len(body[h].requests)
    /\ LET request == body[h].requests[idx[h] + 1]
           out == dispatch(handler, request.name, request.params)
       IN IF request.len < 2
          THEN /\ pc' = [pc EXCEPT ![h] = "done"]
               /\ ret' = [ret EXCEPT ![h] = Returned("raised", "IndexError", <<>>, NoFault)]
               /\ UNCHANGED <<idx, responses, calls, reports>>
          ELSE IF out.result.kind = "raise"
          THEN /\ pc' = [pc EXCEPT ![h] = "done"]
               /\ ret' = [ret EXCEPT ![h] = Returned("raised", "TypeError", <<>>, NoFault)]
               /\ calls' = [calls EXCEPT ![h] = @ \o out.calls]
               /\ reports' = [reports EXCEPT ![h] = @ \o out.reports]
               /\ UNCHANGED <<idx, responses>>
          ELSE /\ responses' = [responses EXCEPT ![h] = Appended(@, out.result)]
               /\ calls' = [calls EXCEPT ![h] = @ \o out.calls]
               /\ reports' = [reports EXCEPT ![h] = @ \o out.reports]
               /\ idx' = [idx EXCEPT ![h] = @ + 1]
               /\ UNCHANGED <<pc, ret>>
    /\ UNCHANGED <<codes, messages, handler, body, fms, lastLookup, lastCall>>

\* NeedsEncode encoding whatever the composer returned
NeedsEncode_Always(response_text) == TRUE

\* type(response_text) not in types.StringTypes
NeedsEncode(response_text) == response_text.type # "text"

\* run(), lines 92-97: compose the response, encode it if it is not a string
RunCompose(h) ==
    /\ pc[h] = "loop"
    /\ idx[h] = Len(body[h].requests)
    /\ \E textual \in BOOLEAN :
          LET response_text == parse_responses(responses[h], textual)
              returned ==
                 IF NeedsEncode(response_text)
                 THEN Returned(encode(response_text).type, "encode",
                               encode(response_text).payload, NoFault)
                 ELSE Returned(response_text.type, "composer",
                               response_text.payload, NoFault)
          IN ret' = [ret EXCEPT ![h] =
                        [returned EXCEPT !.composed = response_text.type]]
    /\ pc' = [pc EXCEPT ![h] = "done"]
    /\ UNCHANGED <<codes, messages, handler, body, idx, responses, calls,
                   reports, fms, lastLookup, lastCall>>

\* -------------------------------------------------- fault lookups and calls
\* the attribute names looked up on parser.faults
FaultNames == DOMAIN InitialCodes \cup {S_fault, S_bogus}

\* the message arguments FaultMethods are called with: none, "" and "REQUEST"
MessageArgs == {NoMessage, Message(<<>>), Message(S_REQUEST)}

NoLookup == [attr |-> <<>>, kind |-> "none", fm |-> 0, code |-> 0, message |-> <<>>]
NoCall == [fm |-> 0, arg |-> NoMessage, before |-> FaultMethod_init(0, <<>>),
           code |-> 0, message |-> <<>>]

\* fm = parser.faults.<attr>
FaultsLookup(attr) ==
    /\ Len(fms) < MaxFaultMethods
    /\ LET got == Faults_lookup(attr)
       IN IF got.kind = "FaultMethod"
          THEN /\ fms' = Append(fms, got.fm)
               /\ lastLookup' = [attr |-> attr, kind |-> got.kind, fm |-> Len(fms) + 1,
                                 code |-> got.fm.code, message |-> got.fm.message]
          ELSE /\ fms' = fms
               /\ lastLookup' = [attr |-> attr, kind |-> got.kind, fm |-> 0,
                                 code |-> 0, message |-> <<>>]
    /\ UNCHANGED <<codes, messages, handler, pc, body, idx, responses, calls,
                   reports, ret, lastCall>>

\* fm(message) on a FaultMethod looked up before
FaultCall(i, message) ==
    /\ i \in 1..Len(fms)
    /\ LET got == FaultMethod___call__(fms[i], message)
       IN /\ fms' = [fms EXCEPT ![i] = got.fm]
          /\ lastCall' = [fm |-> i, arg |-> message, before |-> fms[i],
                          code |-> got.fault.code, message |-> got.fault.message]
    /\ UNCHANGED <<codes, messages, handler, pc, body, idx, responses, calls,
                   reports, ret, lastLookup>>

\* ------------------------------------------------------------------ inputs
\* sequences over S of length at most n
SeqsUpTo(S, n) == UNION {[1..k -> S] : k \in 0..n}

\* every params value a descriptor may carry: lists and tuples of up to MaxArgs
\* values, dicts over Keys, and three shapes that are neither (an int, a string,
\* None)
AllParams ==
    {ListParams(a) : a \in SeqsUpTo(Values, MaxArgs)}
    \cup {TupleParams(a) : a \in SeqsUpTo(Values, MaxArgs)}
    \cup {DictParams(d) : d \in [Keys -> Values \cup {Absent}]}
    \cup {OtherParams(sh) : sh \in {"int", "str", "none"}}

\* the method names requests ask for: exposed, nested, private by decorator or
\* by underscore, not callable, missing, empty segments, and reserved
MethodNames ==
    {S_add, S_ping, S_tree \o S_dot \o S_power, S_tree,
     S_tree \o S_dot \o S_private, S_private, S__private, S__RPC_,
     S_tree \o S_dot \o S__private, S_private \o S_dot \o S_add,
     S_missing, S_tree \o S_dot \o S_missing, S_tree \o S_dot \o S_dot \o S_power,
     <<>>, S_write, S_post}

AllDescriptors == {Descriptor(nm, p) : nm \in MethodNames, p \in AllParams}

\* the descriptors batches are made of under Spec, one per outcome of dispatch:
\* a value, internal_error, method_not_found (invalid_params, which like
\* method_not_found leaves no trace but the fault, is met under SpecDispatch)
BatchEntries ==
    {Descriptor(S_add, ListParams(<<IntV(1), IntV(2)>>)),
     Descriptor(S_tree \o S_dot \o S_power, TupleParams(<<IntV(0), IntV(-1)>>)),
     Descriptor(S__private, ListParams(<<>>))}

Batches == {BodyOf("tuple", rs) : rs \in SeqsUpTo(BatchEntries, MaxBatch)}

\* BaseRPCParser.parse_request as base.py defines it: return ([], [])
parse_request == BodyOf("tuple", <<EmptyEntry, EmptyEntry>>)

\* ---------------------------------------------------------- specifications
\* the parser and the fault tables as the module leaves them after import, no
\* request started
Fresh ==
    /\ codes = InitialCodes
    /\ messages = InitialMessages
    /\ handler = "unset"
    /\ pc = [h \in Handlers |-> "post"]
    /\ idx = [h \in Handlers |-> 0]
    /\ responses = [h \in Handlers |-> <<>>]
    /\ calls = [h \in Handlers |-> <<>>]
    /\ reports = [h \in Handlers |-> <<>>]
    /\ ret = [h \in Handlers |-> Pending]
    /\ fms = <<>>
    /\ lastLookup = NoLookup
    /\ lastCall = NoCall

\* Spec: two requests, each with any body, their run() calls interleaved
Init ==
    /\ Fresh
    /\ body \in [Handlers -> NonTupleBodies \cup Batches \cup {parse_request}]

Next ==
    \E h \in Handlers :
        \/ RunParse(h)
        \/ RunDispatch(h)
        \/ RunCompose(h)

Spec == Init /\ [][Next]_vars

\* SpecDispatch: h1 posts a single descriptor, any method name with any params,
\* and its run() call goes through alone; h2's request has not started
InitDispatch ==
    /\ Fresh
    /\ \E d \in AllDescriptors :
          body = [h \in Handlers |->
                     IF h = "h1" THEN BodyOf("tuple", <<d>>) ELSE BodyOf("text", <<>>)]

NextDispatch ==
    \/ RunParse("h1")
    \/ RunDispatch("h1")
    \/ RunCompose("h1")

SpecDispatch == InitDispatch /\ [][NextDispatch]_vars

\* SpecFaults: lookups on parser.faults and calls of the FaultMethods they give,
\* with Faults.messages empty or holding one registered message
MessageTables == {InitialMessages, (S_internal_error :> S_Oops)}

InitFaults ==
    /\ codes = InitialCodes
    /\ messages \in MessageTables
    /\ handler = "unset"
    /\ pc = [h \in Handlers |-> "post"]
    /\ body = [h \in Handlers |-> BodyOf("text", <<>>)]
    /\ idx = [h \in Handlers |-> 0]
    /\ responses = [h \in Handlers |-> <<>>]
    /\ calls = [h \in Handlers |-> <<>>]
    /\ reports = [h \in Handlers |-> <<>>]
    /\ ret = [h \in Handlers |-> Pending]
    /\ fms = <<>>
    /\ lastLookup = NoLookup
    /\ lastCall = NoCall

NextFaults ==
    \/ \E attr \in FaultNames : FaultsLookup(attr)
    \/ \E i \in 1..MaxFaultMethods, m \in MessageArgs : FaultCall(i, m)

SpecFaults == InitFaults /\ [][NextFaults]_vars

\* =================================================================== claims
\* the fault a result is, by code
IsFault(result, code) == result.kind = "fault" /\ result.code = code

\* the single descriptor h1 posts under SpecDispatch, and whether dispatch has
\* handled it
TheDescriptor == body["h1"].requests[1]
Dispatched == idx["h1"] = 1
TheResult == responses["h1"][1]

\* ------------------------------------------------------------------- C1
\* the results of the first n descriptors of h, in order
ResultsInOrder(h, rs, n) ==
    /\ Len(rs) = n
    /\ \A i \in 1..n :
          rs[i] = dispatch(h, body[h].requests[i].name, body[h].requests[i].params).result

\* C1: a batch of N descriptors gives parse_responses exactly N results, entry i
\* being the outcome of dispatching descriptor i, whatever mix of values and
\* faults; and while the loop runs the results so far are those of the
\* descriptors passed so far.
C1_BatchResultsInOrder ==
    \A h \in Handlers :
        /\ pc[h] = "loop" => ResultsInOrder(h, responses[h], idx[h])
        /\ ret[h].via \in {"composer", "encode"} =>
              ResultsInOrder(h, ret[h].payload, Len(body[h].requests))

\* C1 for every batch: a run over a tuple of descriptors ends by handing
\* parse_responses the results of them all
C1_EveryBatchComposed ==
    \A h \in Handlers :
        (/\ body[h].kind = "tuple"
         /\ \A i \in 1..Len(body[h].requests) : body[h].requests[i].len = 2
         /\ pc[h] = "done") =>
            /\ ret[h].via \in {"composer", "encode"}
            /\ ResultsInOrder(h, ret[h].payload, Len(body[h].requests))

C1_Witness ==
    \E h \in Handlers :
        /\ ret[h].via = "composer"
        /\ Len(ret[h].payload) = 2
        /\ ret[h].payload[1].kind = "fault"
        /\ ret[h].payload[2].kind = "value"

\* ------------------------------------------------------------------- C2
\* an object carries the private marker
MarkedPrivate(obj) == InDir(obj, S_private) /\ Attrs(obj)[S_private] = "True"

\* the objects plain attribute access reaches along the segments, as far as
\* they exist
RECURSIVE PlainPath(_, _)
PlainPath(segments, obj) ==
    IF Len(segments) = 0 \/ ~InDir(obj, Head(segments)) THEN <<>>
    ELSE <<Attrs(obj)[Head(segments)]>>
             \o PlainPath(Tail(segments), Attrs(obj)[Head(segments)])

\* a segment starts with "_", or resolves to a marked object, or the whole name
\* is a name of the transport handler
Blocked(name) ==
    LET segments == Split(name, ".")
        path == PlainPath(segments, "TestRPCHandler")
    IN \/ \E i \in 1..Len(segments) : StartsWith(segments[i], "_")
       \/ \E i \in 1..Len(path) : MarkedPrivate(path[i])
       \/ name \in ReservedNames

\* C2: a method name with a segment that starts with "_" or resolves to an
\* object marked private, or that is a name of RequestHandler, gets
\* method_not_found (-32601) and nothing is invoked.
C2_BlockedNamesNotFound ==
    (Dispatched /\ Blocked(TheDescriptor.name)) =>
        (IsFault(TheResult, -32601) /\ calls["h1"] = <<>>)

C2_Witness ==
    /\ Dispatched
    /\ TheDescriptor.name = S_tree \o S_dot \o S_private
    /\ TheDescriptor.params = ListParams(<<>>)
    /\ IsFault(TheResult, -32601)

\* ------------------------------------------------------------------- C3
\* the call dispatch made ran the method's body and the body raised
BodyRaised(call) ==
    call.ran /\ Invoke(call.target, call.params).kind \in {"TypeError", "Exception"}

\* C3: whenever the invoked method raises, whatever the exception, the result
\* is internal_error (-32603) and no exception leaves run.
C3_RaisedGivesInternalError ==
    (Len(calls["h1"]) = 1 /\ BodyRaised(calls["h1"][1])) =>
        (Dispatched /\ IsFault(TheResult, -32603) /\ ret["h1"].type # "raised")

\* ------------------------------------------------------------------- C4
\* C4: whatever the request body, run ends by returning a text payload: it never
\* raises and never returns anything that is not text.
C4_RunReturnsText ==
    \A h \in Handlers : pc[h] = "done" => ret[h].type = "text"

\* ------------------------------------------------------------------- C5
\* C5: when parse_request raises, run returns the parse_error fault (-32700),
\* dispatches no descriptor, invokes nothing and raises nothing.
C5_ParseErrorContained ==
    \A h \in Handlers :
        (body[h].kind = "raise" /\ pc[h] # "post") =>
            /\ pc[h] = "done"
            /\ ret[h].type = "fault"
            /\ ret[h].code = -32700
            /\ idx[h] = 0
            /\ responses[h] = <<>>
            /\ calls[h] = <<>>

C5_Witness ==
    \E h \in Handlers :
        body[h].kind = "raise" /\ pc[h] = "done" /\ ret[h].via = "parse_error"

\* ------------------------------------------------------------------- C6
\* the names that resolve to callables TestRPCHandler exposes
ExposedNames == {S_add, S_ping, S_tree \o S_dot \o S_power}

\* params is neither a list or tuple nor a dict
BadShape(params) == params.shape \notin {"list", "tuple", "dict"}

\* C6 as stated: params that are neither a sequence nor a mapping give
\* invalid_params (-32602), whatever the method name, and nothing is invoked.
C6_BadShapeInvalidParams ==
    (Dispatched /\ BadShape(TheDescriptor.params)) =>
        (IsFault(TheResult, -32602) /\ calls["h1"] = <<>>)

\* C6 amended: for a method name that resolves to an exposed callable, params
\* that are neither a sequence nor a mapping give invalid_params (-32602) and
\* nothing is invoked.
C6_BadShapeOnExposedInvalidParams ==
    (Dispatched /\ BadShape(TheDescriptor.params)
                /\ TheDescriptor.name \in ExposedNames) =>
        (IsFault(TheResult, -32602) /\ calls["h1"] = <<>>)

C6_Witness ==
    /\ Dispatched
    /\ TheDescriptor.name = S_ping
    /\ TheDescriptor.params = OtherParams("str")
    /\ IsFault(TheResult, -32602)

\* ------------------------------------------------------------------- C7
\* how many positional arguments each exposed method takes, and the keywords
\* it must and may be given
MinArgs(name) == IF name = S_tree \o S_dot \o S_power THEN 1 ELSE IF name = S_add THEN 2 ELSE 1
MaxArgsOf(name) == IF name = S_ping THEN 1 ELSE 2
RequiredKeys(name) == IF name = S_add THEN {"x", "y"} ELSE {"x"}
AllowedKeys(name) == IF name = S_ping THEN {"x"} ELSE {"x", "y"}
GivenKeys(params) == {k \in Keys : params.kw[k] # Absent}

\* the params fit the declared parameters of the exposed method
Fits(name, params) ==
    IF params.shape = "dict"
    THEN RequiredKeys(name) \subseteq GivenKeys(params)
         /\ GivenKeys(params) \subseteq AllowedKeys(name)
    ELSE Len(params.pos) >= MinArgs(name) /\ Len(params.pos) <= MaxArgsOf(name)

\* C7: list, tuple or dict params that do not fit the declared parameters of
\* the resolved callable (too few, too many, unknown keyword) give
\* invalid_params (-32602), never internal_error.
C7_MisfitInvalidParams ==
    (Dispatched /\ TheDescriptor.name \in ExposedNames
                /\ ~BadShape(TheDescriptor.params)
                /\ ~Fits(TheDescriptor.name, TheDescriptor.params)) =>
        IsFault(TheResult, -32602)

C7_Witness ==
    /\ Dispatched
    /\ TheDescriptor.name = S_add
    /\ TheDescriptor.params.shape = "dict"
    /\ GivenKeys(TheDescriptor.params) = {"x", "z"}
    /\ IsFault(TheResult, -32602)

\* ------------------------------------------------------------------- C8
\* the value of parameter k of a call with fitting params: the i-th positional
\* argument or the keyword's value, else the declared default
Arg(params, i, k, default) ==
    IF params.shape = "dict"
    THEN IF params.kw[k] # Absent THEN params.kw[k] ELSE default
    ELSE IF i <= Len(params.pos) THEN params.pos[i] ELSE default

\* b to the power e for e >= 0, with 0 ** 0 = 1 as in Python
RECURSIVE Power(_, _)
Power(b, e) == IF e <= 0 THEN 1 ELSE Power(b, e - 1) * b

\* what calling the exposed method directly returns, when it returns: x + y,
\* x, and x ** y with y = 2 by default (a float for a negative y)
Direct(name, params) ==
    LET x == Arg(params, 1, "x", None)
        y == Arg(params, 2, "y", IF name = S_add THEN None ELSE IntV(2))
        p == Power(x.n, 0 - y.n)
    IN IF name = S_ping THEN [returns |-> TRUE, val |-> x]
       ELSE IF x.t # "int" \/ y.t # "int" THEN [returns |-> FALSE, val |-> None]
       ELSE IF name = S_add THEN [returns |-> TRUE, val |-> IntV(x.n + y.n)]
       ELSE IF y.n >= 0 THEN [returns |-> TRUE, val |-> IntV(Power(x.n, y.n))]
       ELSE IF x.n = 0 THEN [returns |-> FALSE, val |-> None]
       ELSE [returns |-> TRUE,
             val |-> IF p > 0 THEN FloatV(1, p) ELSE FloatV(-1, 0 - p)]

\* C8: for an exposed callable and params that fit it, dispatch returns what
\* the direct call returns, a dict applied as keywords and a list or tuple as
\* positional arguments in order, with the declared defaults.
C8_SameAsDirectCall ==
    (Dispatched /\ TheDescriptor.name \in ExposedNames
                /\ ~BadShape(TheDescriptor.params)
                /\ Fits(TheDescriptor.name, TheDescriptor.params)
                /\ Direct(TheDescriptor.name, TheDescriptor.params).returns) =>
        /\ TheResult = ValueResult(Direct(TheDescriptor.name, TheDescriptor.params).val)
        /\ Len(calls["h1"]) = 1
        /\ calls["h1"][1].params = TheDescriptor.params

C8_Witness ==
    /\ Dispatched
    /\ TheDescriptor.name = S_tree \o S_dot \o S_power
    /\ TheDescriptor.params = ListParams(<<IntV(2)>>)
    /\ TheResult = ValueResult(IntV(4))

\* ------------------------------------------------------------------- C9
\* C9: with the run calls of two requests interleaved, every descriptor of a
\* request is resolved and invoked against that request's own handler, and the
\* request's results are those of its own descriptors.
C9_OwnHandlerOwnResults ==
    \A h \in Handlers :
        /\ \A i \in 1..Len(calls[h]) : calls[h][i].self = h
        /\ pc[h] = "loop" => ResultsInOrder(h, responses[h], idx[h])

\* ------------------------------------------------------------------ C10
\* the five symbolic names with their codes and the messages derived from them
TaxonomyCode(name) ==
    CASE name = S_parse_error -> -32700
      [] name = S_method_not_found -> -32601
      [] name = S_invalid_request -> -32600
      [] name = S_invalid_params -> -32602
      [] name = S_internal_error -> -32603
      [] OTHER -> 0
DerivedMessage(name) ==
    CASE name = S_parse_error ->
            <<"P", "a", "r", "s", "e", " ", "E", "r", "r", "o", "r">>
      [] name = S_method_not_found ->
            <<"M", "e", "t", "h", "o", "d", " ", "N", "o", "t", " ", "F", "o", "u", "n", "d">>
      [] name = S_invalid_request ->
            <<"I", "n", "v", "a", "l", "i", "d", " ", "R", "e", "q", "u", "e", "s", "t">>
      [] name = S_invalid_params ->
            <<"I", "n", "v", "a", "l", "i", "d", " ", "P", "a", "r", "a", "m", "s">>
      [] name = S_internal_error ->
            <<"I", "n", "t", "e", "r", "n", "a", "l", " ", "E", "r", "r", "o", "r">>
      [] OTHER -> <<>>
Enumerated ==
    {S_parse_error, S_method_not_found, S_invalid_request, S_invalid_params,
     S_internal_error}
DefaultMessage(name) ==
    IF name \in DOMAIN messages THEN messages[name] ELSE DerivedMessage(name)

\* the latest lookup of an enumerated name gave a constructor bound to the
\* name's code and default message
LookupBound ==
    (lastLookup.kind # "none" /\ lastLookup.attr \in Enumerated) =>
        /\ lastLookup.kind = "FaultMethod"
        /\ lastLookup.code = TaxonomyCode(lastLookup.attr)
        /\ lastLookup.message = DefaultMessage(lastLookup.attr)

\* C10 as stated: a lookup of an enumerated name gives a constructor bound to
\* the fixed code and the default message (registered, else derived from the
\* name); a call with a message string gives a fault carrying that message; a
\* lookup of any name outside the enumeration fails.
C10_LookupAndCall ==
    /\ LookupBound
    /\ (lastLookup.kind # "none" /\ lastLookup.attr \notin Enumerated) =>
          lastLookup.kind = "KeyError"
    /\ (lastCall.fm # 0 /\ ~lastCall.arg.none) =>
          (lastCall.message = lastCall.arg.s /\ lastCall.code = lastCall.before.code)

\* C10 amended: as stated, but the message replaces the default only when it is
\* a non-empty string (with "" or no message the fault carries the message the
\* constructor holds), and the lookup of a name outside the enumeration fails
\* only when the name is not an attribute the Faults object already has
\* (library, fault, codes, messages).
C10_LookupAndCallAmended ==
    /\ LookupBound
    /\ (lastLookup.kind # "none" /\ lastLookup.attr \notin Enumerated
            /\ lastLookup.attr \notin {S_library, S_fault, S_codes, S_messages}) =>
          lastLookup.kind = "KeyError"
    /\ (lastCall.fm # 0 /\ ~lastCall.arg.none /\ lastCall.arg.s # <<>>) =>
          (lastCall.message = lastCall.arg.s /\ lastCall.code = lastCall.before.code)
    /\ (lastCall.fm # 0 /\ (lastCall.arg.none \/ lastCall.arg.s = <<>>)) =>
          (lastCall.message = lastCall.before.message
              /\ lastCall.code = lastCall.before.code)

C10_Witness ==
    /\ lastLookup.attr = S_internal_error
    /\ lastLookup.kind = "FaultMethod"
    /\ lastLookup.message = S_Oops
    /\ lastCall.fm # 0
    /\ lastCall.before.message = DerivedMessage(S_parse_error)
    /\ lastCall.arg = Message(S_REQUEST)
    /\ lastCall.message = S_REQUEST
    /\ lastCall.code = -32700

\* ------------------------------------------------------------------ C11
\* C11: when parse_request returns something that is not a tuple, run goes
\* through neither the loop nor the composer (nothing dispatched, invoked or
\* reported, parse_responses not called) and returns the value itself if it is
\* text, what its response method returns if it has one, else the value
\* unmodified.
C11_NonTupleReturnedDirectly ==
    \A h \in Handlers :
        (body[h].kind \in {"text", "response", "other"} /\ pc[h] # "post") =>
            /\ pc[h] = "done"
            /\ idx[h] = 0
            /\ responses[h] = <<>>
            /\ calls[h] = <<>>
            /\ reports[h] = <<>>
            /\ ret[h].payload = <<>>
            /\ ret[h].via = CASE body[h].kind = "text" -> "text"
                              [] body[h].kind = "response" -> "response"
                              [] OTHER -> "unmodified"
            /\ ret[h].type = IF body[h].kind = "other" THEN "object" ELSE "text"

C11_Witness ==
    /\ body["h1"].kind = "response" /\ ret["h1"].via = "response"
    /\ body["h2"].kind = "other" /\ ret["h2"].via = "unmodified"

\* ------------------------------------------------------------------ C12
\* plain attribute access does not reach the end of the dotted name
MissingAttribute(name) ==
    Len(PlainPath(Split(name, "."), "TestRPCHandler")) < Len(Split(name, "."))

\* the names that resolve to an object that cannot be called: the TestMethodTree
\* instance and the _RPC_ attribute
NotCallableNames == {S_tree, S__RPC_}

\* the names blocked as private: a segment with a leading underscore or an
\* object marked private on the way
BlockedAsPrivate(name) ==
    LET segments == Split(name, ".")
        path == PlainPath(segments, "TestRPCHandler")
    IN \/ \E i \in 1..Len(segments) : StartsWith(segments[i], "_")
       \/ \E i \in 1..Len(path) : MarkedPrivate(path[i])

\* C12: a missing attribute at any segment, a resolved value that is not
\* callable and a name blocked as private all give method_not_found (-32601),
\* no other code, and nothing is invoked.
C12_ResolutionFailuresNotFound ==
    (Dispatched /\ (\/ MissingAttribute(TheDescriptor.name)
                    \/ TheDescriptor.name \in NotCallableNames
                    \/ BlockedAsPrivate(TheDescriptor.name))) =>
        (IsFault(TheResult, -32601) /\ calls["h1"] = <<>> /\ reports["h1"] = <<>>)

C12_Witness ==
    /\ Dispatched
    /\ TheDescriptor.name = S_tree
    /\ TheDescriptor.params = ListParams(<<>>)
    /\ IsFault(TheResult, -32601)

\* ------------------------------------------------------------------ C13
\* the descriptors that get as far as a call: an exposed name with list, tuple
\* or dict params
Invokes(request) ==
    /\ request.name \in ExposedNames
    /\ request.params.shape \in {"list", "tuple", "dict"}

\* the descriptors among the first n of a batch that get as far as a call, in
\* submitted order
RECURSIVE InvokedOf(_, _)
InvokedOf(requests, n) ==
    IF n = 0 THEN <<>>
    ELSE InvokedOf(requests, n - 1) \o
         (IF Invokes(requests[n]) THEN <<requests[n]>> ELSE <<>>)

\* the calls made so far are those of the descriptors processed so far, one per
\* descriptor that gets as far as a call, in submitted order; every processed
\* descriptor has its result appended; a run that ended went through them all
C13_Sequential ==
    \A h \in Handlers :
        (body[h].kind = "tuple" /\ \A i \in 1..Len(body[h].requests) :
                                       body[h].requests[i].len = 2) =>
            LET invoked == InvokedOf(body[h].requests,
                                     IF ret[h].type = "raised" THEN idx[h] + 1
                                     ELSE idx[h])
            IN /\ Len(responses[h]) = idx[h]
               /\ Len(calls[h]) = Len(invoked)
               /\ \A k \in 1..Len(invoked) :
                      calls[h][k].params = invoked[k].params
               /\ (pc[h] = "done" /\ ret[h].type # "raised") =>
                      idx[h] = Len(body[h].requests)

\* a step that invokes a callable invokes one, for the next descriptor, with all
\* earlier results already appended, and appends its result
C13_OneAtATime ==
    \A h \in Handlers :
        calls'[h] # calls[h] =>
            /\ Len(calls'[h]) = Len(calls[h]) + 1
            /\ Len(responses[h]) = idx[h]
            /\ calls'[h][Len(calls'[h])].params = body[h].requests[idx[h] + 1].params
            /\ \/ idx'[h] = idx[h] + 1 /\ Len(responses'[h]) = idx'[h]
               \/ ret'[h].type = "raised" /\ responses'[h] = responses[h]

\* C13: within one run the descriptors are processed one at a time in submitted
\* order: at most one invocation per descriptor, the invocation for descriptor
\* i+1 only after the result of descriptor i is appended, and a fault for
\* descriptor i does not stop descriptors i+1..N.
C13_OneAtATimeInOrder == [] C13_Sequential /\ [][C13_OneAtATime]_vars

\* a batch whose first descriptor gave a fault and whose second was invoked
C13_Witness ==
    /\ body["h1"].kind = "tuple"
    /\ idx["h1"] = 2
    /\ responses["h1"][1].kind = "fault"
    /\ body["h1"].requests[2].name = S_add
    /\ responses["h1"][2].kind = "value"
    /\ Len(calls["h1"]) = 1

\* ------------------------------------------------------------------ C14
\* C14: after the loop run applies encode to the composer's output exactly when
\* parse_responses returned something that is not text; text returned by
\* parse_responses is returned unchanged, not encoded a second time.
C14_EncodeIffNotText ==
    \A h \in Handlers :
        /\ ret[h].composed # "" =>
              /\ pc[h] = "done"
              /\ ret[h].via \in {"composer", "encode"}
              /\ ret[h].via = "encode" <=> ret[h].composed # "text"
              /\ ret[h].payload = responses[h]
              /\ ret[h].composed = "text" => ret[h].type = "text"
        /\ ret[h].via \in {"composer", "encode"} => ret[h].composed # ""

C14_Witness ==
    /\ ret["h1"].composed = "text" /\ ret["h1"].via = "composer"
    /\ Len(ret["h1"].payload) = 2
    /\ ret["h2"].composed = "object" /\ ret["h2"].via = "encode"
    /\ Len(ret["h2"].payload) = 1

\* ------------------------------------------------------------------ C15
\* C15: when dispatch gives internal_error for a descriptor, traceback has been
\* called exactly once, with the descriptor's method name and params; a
\* descriptor that ends in a value, method_not_found or invalid_params causes no
\* call of traceback.
C15_ReportedIffInternalError ==
    Dispatched =>
        IF IsFault(TheResult, -32603)
        THEN reports["h1"] = <<[method_name |-> TheDescriptor.name,
                                params |-> TheDescriptor.params]>>
        ELSE reports["h1"] = <<>>

C15_Witness ==
    /\ Dispatched
    /\ TheDescriptor.name = S_tree \o S_dot \o S_power
    /\ TheDescriptor.params.shape = "dict"
    /\ IsFault(TheResult, -32603)
    /\ Len(reports["h1"]) = 1
    /\ reports["h1"][1].method_name = S_tree \o S_dot \o S_power

\* ------------------------------------------------------------------ C16
\* the name does not resolve to an exposed callable: it is reserved, an
\* attribute is missing, the resolved value is not callable, or it is private
ResolutionFails(name) ==
    \/ name \in ReservedNames
    \/ MissingAttribute(name)
    \/ name \in NotCallableNames
    \/ BlockedAsPrivate(name)

\* C16: resolution comes before binding: a name that fails resolution gives
\* method_not_found whatever the params, also params of a wrong shape or
\* arity; invalid_params is only given for a name that resolved to an exposed
\* callable.
C16_ResolutionBeforeBinding ==
    Dispatched =>
        /\ ResolutionFails(TheDescriptor.name) =>
              (IsFault(TheResult, -32601) /\ calls["h1"] = <<>>)
        /\ IsFault(TheResult, -32602) =>
              (TheDescriptor.name \in ExposedNames
                  /\ ~ResolutionFails(TheDescriptor.name))

C16_Witness ==
    /\ Dispatched
    /\ TheDescriptor.name = S_tree \o S_dot \o S_missing
    /\ TheDescriptor.params = OtherParams("int")
    /\ IsFault(TheResult, -32601)

\* ------------------------------------------------------------------ C17
\* in every state a lookup of an enumerated name followed by a call with no
\* message gives the name's code and default message; and the constructor
\* looked up last, if called with no message while it holds what the lookup
\* gave it, built a fault with that code and message
C17_DefaultsKept ==
    /\ \A name \in Enumerated :
          Fault(name) = [code |-> TaxonomyCode(name),
                         message |-> DefaultMessage(name)]
    /\ (/\ lastCall.fm # 0
        /\ lastCall.fm = lastLookup.fm
        /\ lastCall.arg.none
        /\ lastCall.before.message = lastLookup.message) =>
          /\ lastCall.code = TaxonomyCode(lastLookup.attr)
          /\ lastCall.message = DefaultMessage(lastLookup.attr)

\* no lookup and no call writes the codes or the messages table
C17_TablesKept == codes' = codes /\ messages' = messages

\* C17: a message override does not leak between the faults built through
\* parser.faults: after any lookups and calls, some with an override message, a
\* lookup of a name followed by a call with no message gives a fault with the
\* name's default message and fixed code, and the shared codes and messages
\* tables are unchanged.
C17_OverrideDoesNotLeak == [] C17_DefaultsKept /\ [][C17_TablesKept]_vars

\* the first constructor of parse_error was called with "REQUEST"; the second,
\* looked up afterwards, was called with no message and gave "Parse Error"
C17_Witness ==
    /\ Len(fms) = 2
    /\ fms[1] = [code |-> -32700, message |-> S_REQUEST]
    /\ lastLookup.attr = S_parse_error
    /\ lastLookup.fm = 2
    /\ lastCall.fm = 2
    /\ lastCall.arg.none
    /\ lastCall.code = -32700
    /\ lastCall.message = DerivedMessage(S_parse_error)

====
